---- MODULE Spec2Model ----
(***************************************************************************)
(* Model of the solanastream-starter-ts consumer: the NATSConsumer class   *)
(* (JetStream variant and core-NATS variant), the Parser sink, the         *)
(* settings object and the process wiring of index.ts.                     *)
(*                                                                         *)
(* Scheduling follows Node's event loop: an action is one macrotask (a     *)
(* signal, a timer tick, a socket event) together with the synchronous     *)
(* code it runs; the continuations of awaits on already-settled promises   *)
(* are microtasks and run before the next macrotask is taken.              *)
(***************************************************************************)
EXTENDS Integers, Sequences, FiniteSets, TLC

(***************************************************************************)
(* Payload decoding: StringCodec().decode(data) followed by JSON.parse.    *)
(* A payload is a sequence of bytes (0..255); text is a sequence of code   *)
(* points.                                                                 *)
(***************************************************************************)

\* Bytes that may follow a UTF-8 lead byte as its first continuation byte.
SecondByteRange(lead) ==
    CASE lead = 224 -> 160..191
      [] lead = 237 -> 128..159
      [] lead = 240 -> 144..191
      [] lead = 244 -> 128..143
      [] OTHER      -> 128..191

\* Number of continuation bytes a lead byte asks for (0: not a lead byte).
Needed(lead) ==
    IF lead \in 194..223 THEN 1
    ELSE IF lead \in 224..239 THEN 2
    ELSE IF lead \in 240..244 THEN 3
    ELSE 0

RECURSIVE UTF8From(_, _)
\* StringCodec().decode is TextDecoder.decode with fatal = false: a
\* malformed sequence never raises, it becomes U+FFFD (65533).
UTF8From(b, i) ==
    IF i > Len(b) THEN <<>>
    ELSE LET x == b[i]
             n == Needed(x)
             has(k) == i + k <= Len(b)
             ok1 == has(1) /\ b[i + 1] \in SecondByteRange(x)
             ok2 == ok1 /\ has(2) /\ b[i + 2] \in 128..191
             ok3 == ok2 /\ has(3) /\ b[i + 3] \in 128..191
         IN  IF x <= 127 THEN <<x>> \o UTF8From(b, i + 1)
             ELSE IF n = 1 THEN
                 IF ok1 THEN <<(x - 192) * 64 + (b[i + 1] - 128)>> \o UTF8From(b, i + 2)
                 ELSE <<65533>> \o UTF8From(b, i + 1)
             ELSE IF n = 2 THEN
                 IF ok2 THEN <<(x - 224) * 4096 + (b[i + 1] - 128) * 64 + (b[i + 2] - 128)>>
                             \o UTF8From(b, i + 3)
                 ELSE IF ok1 THEN <<65533>> \o UTF8From(b, i + 2)
                 ELSE <<65533>> \o UTF8From(b, i + 1)
             ELSE IF n = 3 THEN
                 IF ok3 THEN <<(x - 240) * 262144 + (b[i + 1] - 128) * 4096
                               + (b[i + 2] - 128) * 64 + (b[i + 3] - 128)>>
                             \o UTF8From(b, i + 4)
                 ELSE IF ok2 THEN <<65533>> \o UTF8From(b, i + 3)
                 ELSE IF ok1 THEN <<65533>> \o UTF8From(b, i + 2)
                 ELSE <<65533>> \o UTF8From(b, i + 1)
             ELSE <<65533>> \o UTF8From(b, i + 1)

\* The decoded text; a leading byte order mark (U+FEFF) is dropped.
StringCodecDecode(data) ==
    LET t == UTF8From(data, 1)
    IN  IF Len(t) > 0 /\ t[1] = 65279 THEN Tail(t) ELSE t

\* Whether the bytes are well-formed UTF-8 (no replacement was needed).
RECURSIVE ValidUTF8From(_, _)
ValidUTF8From(b, i) ==
    IF i > Len(b) THEN TRUE
    ELSE LET x == b[i]
             n == Needed(x)
         IN  IF x <= 127 THEN ValidUTF8From(b, i + 1)
             ELSE /\ n > 0
                  /\ i + n <= Len(b)
                  /\ b[i + 1] \in SecondByteRange(x)
                  /\ \A k \in 2..n : b[i + k] \in 128..191
                  /\ ValidUTF8From(b, i + n + 1)

ValidUTF8(data) == ValidUTF8From(data, 1)

(***************************************************************************)
(* JSON.parse (ECMA-404 grammar).  A parse step returns                    *)
(* [ok, next, val]: whether a value was read at position i, the position   *)
(* after it, and the value in canonical form (its text without the         *)
(* insignificant whitespace).                                              *)
(***************************************************************************)
IsWs(c) == c \in {9, 10, 13, 32}
IsDigit(c) == c \in 48..57
IsHex(c) == c \in (48..57) \cup (65..70) \cup (97..102)

Fail == [ok |-> FALSE, next |-> 0, val |-> <<>>]
Done(n, v) == [ok |-> TRUE, next |-> n, val |-> v]

RECURSIVE SkipWs(_, _)
SkipWs(s, i) == IF i <= Len(s) /\ IsWs(s[i]) THEN SkipWs(s, i + 1) ELSE i

RECURSIVE SkipDigits(_, _)
SkipDigits(s, i) == IF i <= Len(s) /\ IsDigit(s[i]) THEN SkipDigits(s, i + 1) ELSE i

\* s[i..j-1] spells the literal lit.
Spells(s, i, lit) ==
    /\ i + Len(lit) - 1 <= Len(s)
    /\ \A k \in 1..Len(lit) : s[i + k - 1] = lit[k]

ParseLiteral(s, i, lit) ==
    IF Spells(s, i, lit) THEN Done(i + Len(lit), lit) ELSE Fail

\* -? (0 | [1-9][0-9]*) (. [0-9]+)? ([eE] [+-]? [0-9]+)?
ParseNumber(s, i) ==
    LET i1 == IF i <= Len(s) /\ s[i] = 45 THEN i + 1 ELSE i
        intOk == i1 <= Len(s) /\ IsDigit(s[i1])
        i2 == IF s[i1] = 48 THEN i1 + 1 ELSE SkipDigits(s, i1)
        hasFrac == i2 <= Len(s) /\ s[i2] = 46
        f2 == SkipDigits(s, i2 + 1)
        fracOk == ~hasFrac \/ f2 > i2 + 1
        i3 == IF hasFrac THEN f2 ELSE i2
        hasExp == i3 <= Len(s) /\ s[i3] \in {69, 101}
        e1 == IF i3 + 1 <= Len(s) /\ s[i3 + 1] \in {43, 45} THEN i3 + 2 ELSE i3 + 1
        e2 == SkipDigits(s, e1)
        expOk == ~hasExp \/ e2 > e1
        i4 == IF hasExp THEN e2 ELSE i3
    IN  IF intOk /\ fracOk /\ expOk THEN Done(i4, SubSeq(s, i, i4 - 1)) ELSE Fail

RECURSIVE StringEnd(_, _)
\* Position after the closing quote of a string whose body starts at i, or
\* 0 when the string is malformed.
StringEnd(s, i) ==
    IF i > Len(s) THEN 0
    ELSE IF s[i] = 34 THEN i + 1
    ELSE IF s[i] < 32 THEN 0
    ELSE IF s[i] = 92 THEN
        IF i + 1 > Len(s) THEN 0
        ELSE IF s[i + 1] \in {34, 92, 47, 98, 102, 110, 114, 116} THEN StringEnd(s, i + 2)
        ELSE IF s[i + 1] = 117 /\ i + 5 <= Len(s)
                /\ \A k \in 2..5 : IsHex(s[i + k]) THEN StringEnd(s, i + 6)
        ELSE 0
    ELSE StringEnd(s, i + 1)

ParseString(s, i) ==
    IF i <= Len(s) /\ s[i] = 34
    THEN LET e == StringEnd(s, i + 1)
         IN  IF e = 0 THEN Fail ELSE Done(e, SubSeq(s, i, e - 1))
    ELSE Fail

RECURSIVE ParseValue(_, _), ParseElements(_, _, _), ParseMembers(_, _, _)

ParseValue(s, i) ==
    IF i > Len(s) THEN Fail
    ELSE CASE s[i] = 123 ->
                LET j == SkipWs(s, i + 1)
                IN  IF j <= Len(s) /\ s[j] = 125 THEN Done(j + 1, <<123, 125>>)
                    ELSE ParseMembers(s, j, <<123>>)
           [] s[i] = 91 ->
                LET j == SkipWs(s, i + 1)
                IN  IF j <= Len(s) /\ s[j] = 93 THEN Done(j + 1, <<91, 93>>)
                    ELSE ParseElements(s, j, <<91>>)
           [] s[i] = 34 -> ParseString(s, i)
           [] s[i] = 45 \/ IsDigit(s[i]) -> ParseNumber(s, i)
           [] s[i] = 116 -> ParseLiteral(s, i, <<116, 114, 117, 101>>)
           [] s[i] = 102 -> ParseLiteral(s, i, <<102, 97, 108, 115, 101>>)
           [] s[i] = 110 -> ParseLiteral(s, i, <<110, 117, 108, 108>>)
           [] OTHER -> Fail

\* value (, value)* ] with acc the canonical text read so far.
ParseElements(s, i, acc) ==
    LET v == ParseValue(s, i)
        j == SkipWs(s, v.next)
    IN  IF ~v.ok \/ j > Len(s) THEN Fail
        ELSE IF s[j] = 93 THEN Done(j + 1, acc \o v.val \o <<93>>)
        ELSE IF s[j] = 44 THEN ParseElements(s, SkipWs(s, j + 1), acc \o v.val \o <<44>>)
        ELSE Fail

\* string : value (, string : value)* }
ParseMembers(s, i, acc) ==
    LET k == ParseString(s, i)
        c == SkipWs(s, k.next)
        v == ParseValue(s, SkipWs(s, c + 1))
        j == SkipWs(s, v.next)
    IN  IF ~k.ok \/ c > Len(s) THEN Fail
        ELSE IF s[c] # 58 \/ ~v.ok \/ j > Len(s) THEN Fail
        ELSE IF s[j] = 125 THEN Done(j + 1, acc \o k.val \o <<58>> \o v.val \o <<125>>)
        ELSE IF s[j] = 44
             THEN ParseMembers(s, SkipWs(s, j + 1), acc \o k.val \o <<58>> \o v.val \o <<44>>)
        ELSE Fail

\* JSON.parse(text): [ok, val]; ok = FALSE stands for the SyntaxError.
JSONParse(text) ==
    LET r == ParseValue(text, SkipWs(text, 1))
    IN  IF r.ok /\ SkipWs(text, r.next) = Len(text) + 1
        THEN [ok |-> TRUE, val |-> r.val]
        ELSE [ok |-> FALSE, val |-> <<>>]

\* JSON.parse(StringCodec().decode(data)) of handleMessage.
DecodePayload(data) == JSONParse(StringCodecDecode(data))


(***************************************************************************)
(* Settings (config.ts).  An environment variable is Undefined, the empty  *)
(* string or a value; a file is Unreadable or has a content.               *)
(***************************************************************************)
Undefined == "undefined"
Unreadable == "ENOENT"

\* JavaScript truthiness of a string-or-undefined value.
Truthy(v) == v \notin {Undefined, ""}

\* a || b
Or(a, b) == IF Truthy(a) THEN a ELSE b

\* String.prototype.trim on the file contents the model draws from.
Trim(c) == IF c \in {" ", "\n"} THEN "" ELSE c

\* loadCredentialFile: undefined without a path or when the read fails.
loadCredentialFile(files, filePath) ==
    IF ~Truthy(filePath) THEN Undefined
    ELSE IF files[filePath] = Unreadable THEN Undefined
    ELSE Trim(files[filePath])

Variants == {"jetstream", "core"}

\* The paths the environment may name.
Paths == {"user.jwt", "user.nk", "user.creds", "tls.pem"}

\* settings.nats of the JetStream variant.
JetStreamNats(e, files) ==
    [ jwt      |-> Or(e.NATS_JWT, loadCredentialFile(files, e.NATS_JWT_FILE)),
      nkey     |-> Or(e.NATS_NKEY, loadCredentialFile(files, e.NATS_NKEY_FILE)),
      jwtFile  |-> e.NATS_JWT_FILE,
      nkeyFile |-> e.NATS_NKEY_FILE,
      tls      |-> [cert |-> e.NATS_TLS_CERT, key |-> e.NATS_TLS_KEY, ca |-> e.NATS_TLS_CA] ]

\* settings.nats of the core-NATS variant.
CoreNats(e) ==
    [ credsFile |-> Or(e.NATS_JWT_FILE, e.NATS_CREDS_FILE),
      userJwt   |-> e.NATS_USER_JWT,
      userSeed  |-> e.NATS_USER_SEED ]

\* settings.streams: the stream names, in list order.
StreamNames == <<"pumpfun", "pumpswap">>
Streams == 1..Len(StreamNames)

(***************************************************************************)
(* parseStreamConfig of config.ts.  A string is the sequence of its commas, *)
(* its blanks and its runs of other characters.                            *)
(***************************************************************************)
\* An environment variable that is not set, and one set to the text str.
Unset == [set |-> FALSE]
SetTo(str) == [set |-> TRUE, text |-> str]

\* String.prototype.split(','): the pieces between the commas, the empty
\* ones included; a text without a comma is the one piece.
RECURSIVE Split(_)
Split(str) ==
    IF \A i \in 1..Len(str) : str[i] # ","
    THEN <<str>>
    ELSE LET i == CHOOSE k \in 1..Len(str) :
                      str[k] = "," /\ \A j \in 1..(k - 1) : str[j] # ","
         IN  <<SubSeq(str, 1, i - 1)>> \o Split(SubSeq(str, i + 1, Len(str)))

\* String.prototype.trim(): the text without its leading and trailing blanks.
RECURSIVE TrimText(_)
TrimText(str) ==
    IF str = <<>> THEN str
    ELSE IF Head(str) = " " THEN TrimText(Tail(str))
    ELSE IF str[Len(str)] = " " THEN TrimText(SubSeq(str, 1, Len(str) - 1))
    ELSE str

\* "process.env.X?.split(',') || default": an array, even [''], is truthy.
SplitOr(value, default) == IF value.set THEN Split(value.text) ELSE default

\* The three lists parseStreamConfig of variant v builds from environment e;
\* the core variant has no list of JetStream names.
StreamLists(v, e) ==
    IF v = "jetstream"
    THEN [ names    |-> SplitOr(e.STREAM_NAMES, <<<<"pumpfun">>, <<"pumpswap">>>>),
           subjects |-> SplitOr(e.STREAM_SUBJECTS, <<<<"parsedtx.pumpfun">>, <<"parsedtx.pumpswap">>>>),
           streams  |-> SplitOr(e.JETSTREAM_NAMES, <<<<"PARSED_PUMPFUN">>, <<"PARSED_PUMPSWAP">>>>) ]
    ELSE [ names    |-> SplitOr(e.STREAM_NAMES, <<<<"basic-stream">>>>),
           subjects |-> SplitOr(e.STREAM_SUBJECTS, <<<<"basic.pumpfun">>>>) ]

\* names.map((name, index) => ...) over lists l of variant v; an index past
\* the end of a list reads undefined, and undefined.trim() throws.
MapTargets(v, l) ==
    IF \/ Len(l.subjects) < Len(l.names)
       \/ v = "jetstream" /\ Len(l.streams) < Len(l.names)
    THEN [state |-> "threw", targets |-> <<>>]
    ELSE [ state   |-> "loaded",
           targets |-> [ i \in 1..Len(l.names) |->
                          IF v = "jetstream"
                          THEN [ name    |-> TrimText(l.names[i]),
                                 subject |-> TrimText(l.subjects[i]),
                                 stream  |-> TrimText(l.streams[i]) ]
                          ELSE [ name    |-> TrimText(l.names[i]),
                                 subject |-> TrimText(l.subjects[i]) ] ] ]

\* parseStreamConfig of the JetStream variant comparing the names with the
\* subjects only, as the core variant does.
parseStreamConfigNamesSubjects(v, e) ==
    LET l == StreamLists(v, e)
    IN  IF Len(l.names) # Len(l.subjects)
        THEN [state |-> "threw", targets |-> <<>>]
        ELSE MapTargets(v, l)

\* parseStreamConfig(): throw when the lists differ in length, else one
\* target per index.  The throw leaves the settings object unbuilt.
parseStreamConfig(v, e) ==
    LET l == StreamLists(v, e)
    IN  IF \/ Len(l.names) # Len(l.subjects)
           \/ v = "jetstream" /\ Len(l.names) # Len(l.streams)
        THEN [state |-> "threw", targets |-> <<>>]
        ELSE MapTargets(v, l)

(***************************************************************************)
(* Authentication selection and option building of NATSConsumer.connect.   *)
(***************************************************************************)
\* SelectAuthJetStream with the JWT-only test ahead of the JWT + NKey test.
SelectAuthJetStreamJwtFirst(nats) ==
    IF Truthy(nats.jwtFile) THEN "credsFile"
    ELSE IF Truthy(nats.jwt) THEN "jwt"
    ELSE IF Truthy(nats.jwt) /\ Truthy(nats.nkey) THEN "jwt+nkey"
    ELSE IF Truthy(nats.nkey) THEN "nkey"
    ELSE "anonymous"

\* The branch of the if / else-if chain of the JetStream variant.
SelectAuthJetStream(nats) ==
    IF Truthy(nats.jwtFile) THEN "credsFile"
    ELSE IF Truthy(nats.jwt) /\ Truthy(nats.nkey) THEN "jwt+nkey"
    ELSE IF Truthy(nats.jwt) THEN "jwt"
    ELSE IF Truthy(nats.nkey) THEN "nkey"
    ELSE "anonymous"

\* SelectAuthCore with the anonymous fallback of the JetStream variant.
SelectAuthCoreAnonymous(nats) ==
    IF Truthy(nats.credsFile) THEN "credsFile"
    ELSE IF Truthy(nats.userJwt) /\ Truthy(nats.userSeed) THEN "jwt+seed"
    ELSE "anonymous"

\* The branch of the chain of the core variant; the last branch throws.
SelectAuthCore(nats) ==
    IF Truthy(nats.credsFile) THEN "credsFile"
    ELSE IF Truthy(nats.userJwt) /\ Truthy(nats.userSeed) THEN "jwt+seed"
    ELSE "notConfigured"

SelectAuth(v, nats) ==
    IF v = "jetstream" THEN SelectAuthJetStream(nats) ELSE SelectAuthCore(nats)

\* readFileSync(path) throws.
ReadThrows(files, path) == files[path] = Unreadable

\* The TLS files connect reads (JetStream variant only).
TlsReads(v, nats) ==
    IF v = "jetstream" /\ (Truthy(nats.tls.cert) \/ Truthy(nats.tls.key) \/ Truthy(nats.tls.ca))
    THEN {p \in {nats.tls.cert, nats.tls.key, nats.tls.ca} : Truthy(p)}
    ELSE {}

\* Whether connect() throws before it reaches the transport connect.
OptionsThrow(v, nats, files) ==
    LET auth == SelectAuth(v, nats)
        credsPath == IF v = "jetstream" THEN nats.jwtFile ELSE nats.credsFile
    IN  \/ auth = "notConfigured"
        \/ auth = "credsFile" /\ ReadThrows(files, credsPath)
        \/ \E p \in TlsReads(v, nats) : ReadThrows(files, p)


(***************************************************************************)
(* Bounds and inputs.                                                      *)
(***************************************************************************)
\* Messages the broker delivers in one run, over all subscriptions.
MaxMsgs == 3
\* Calls of consumer.stop() in one run (shutdown triggers, or API calls).
MaxStops == 2
\* Length of the text of a stream-list environment variable.
MaxEnvLen == 3

\* Payloads the broker delivers: {"a":1}, not-json, {"a":2}, and a JSON
\* string holding the byte FF, which is not UTF-8.
Payloads ==
    { <<123, 34, 97, 34, 58, 49, 125>>,
      <<110, 111, 116, 45, 106, 115, 111, 110>>,
      <<123, 34, 97, 34, 58, 50, 125>>,
      <<34, 255, 34>> }

\* process.on(...) events that call shutdown.
Triggers == {"SIGINT", "SIGTERM", "uncaughtException", "unhandledRejection"}

VARIABLES
    harness,        \* "main": index.ts runs the consumer; "api": a caller of the class
    variant,        \* which consumer.ts is built: "jetstream" or "core"
    settings,       \* settings.nats
    fs,             \* the files the settings name
    streamEnv,      \* STREAM_NAMES, STREAM_SUBJECTS, JETSTREAM_NAMES
    streams,        \* settings.streams: unloaded, threw, or loaded with its targets
    sink,           \* the console the Parser prints to: "ok", or "faulty" (console.log may throw)
    decoding,       \* sc and JSON: what JSON.parse(sc.decode(data)) gives for each payload
    startPc,        \* where start() stands
    subIdx,         \* index of the stream start() subscribes next
    authChosen,     \* the authentication branch connect() took ("none" before)
    connectAttempts,\* calls of the transport connect(opts)
    nc,             \* this.nc and its state: undefined, open, draining, closed
    running,        \* this.running
    statsInterval,  \* this.statsInterval: undefined, active, cleared
    messageCount,   \* NATSConsumer.messageCount
    parserCount,    \* Parser.messageCount
    sub,            \* per stream: the receive loop: none, waiting, inHandler, exited
    queue,          \* per stream: messages the subscription iterator holds
    delivered,      \* per stream: every message the broker delivered
    handled,        \* per stream: every message passed to handleMessage
    acked,          \* per stream: every message acknowledged
    sinkOut,        \* what Parser.processTransaction printed, in order
    parseErrors,    \* "Failed to parse message as JSON" log lines
    sinkErrors,     \* "Error processing message" log lines of the Parser
    snapshot,       \* the last "Consumer Stats" line, <<>> before the first
    stops,          \* the calls of consumer.stop(), in order, each with where start() stood
    triggers,       \* shutdown triggers received
    exitCode        \* process.exit code, -1 while the process runs

vars == <<harness, variant, settings, fs, streamEnv, streams, sink, decoding, startPc, subIdx, authChosen, connectAttempts,
          nc, running, statsInterval, messageCount, parserCount, sub, queue, delivered,
          handled, acked, sinkOut, parseErrors, sinkErrors, snapshot, stops, triggers,
          exitCode>>

configVars == <<harness, variant, settings, fs, streamEnv, streams, sink, decoding>>
startVars == <<startPc, subIdx, authChosen, connectAttempts>>
msgVars == <<messageCount, parserCount, queue, delivered, handled, acked, sinkOut, parseErrors,
             sinkErrors>>

\* Values of the environment variables and of the files, per variant.  A
\* variable the variant does not read is left Undefined.
EnvOf(v, jwt, nkey, file1, file2, user, seed, tls) ==
    [ NATS_JWT        |-> IF v = "jetstream" THEN jwt ELSE Undefined,
      NATS_NKEY       |-> IF v = "jetstream" THEN nkey ELSE Undefined,
      NATS_JWT_FILE   |-> file1,
      NATS_NKEY_FILE  |-> IF v = "jetstream" THEN file2 ELSE Undefined,
      NATS_CREDS_FILE |-> IF v = "core" THEN file2 ELSE Undefined,
      NATS_USER_JWT   |-> IF v = "core" THEN user ELSE Undefined,
      NATS_USER_SEED  |-> IF v = "core" THEN seed ELSE Undefined,
      NATS_TLS_CERT   |-> IF v = "jetstream" THEN tls[1] ELSE Undefined,
      NATS_TLS_KEY    |-> IF v = "jetstream" THEN tls[2] ELSE Undefined,
      NATS_TLS_CA     |-> IF v = "jetstream" THEN tls[3] ELSE Undefined ]

Envs(v) ==
    { EnvOf(v, jwt, nkey, file1, file2, user, seed, tls) :
        jwt \in {Undefined, "", "J"}, nkey \in {Undefined, "K"},
        file1 \in {Undefined, "user.jwt"},
        file2 \in {Undefined, IF v = "jetstream" THEN "user.nk" ELSE "user.creds"},
        user \in {Undefined, "", "J"}, seed \in {Undefined, "K"},
        tls \in {<<a, b, c>> : a \in {Undefined, "tls.pem"}, b \in {Undefined, "tls.pem"},
                                c \in {Undefined, "tls.pem"}} }

\* The paths an environment names.
NamedPaths(e) ==
    {e.NATS_JWT_FILE, e.NATS_NKEY_FILE, e.NATS_CREDS_FILE,
     e.NATS_TLS_CERT, e.NATS_TLS_KEY, e.NATS_TLS_CA} \cap Paths

\* File systems: a named file is unreadable, blank or has a text; a file the
\* environment does not name is never read.
FileSystems(e) ==
    { f \in [Paths -> {Unreadable, " ", "text"}] :
        \A p \in Paths \ NamedPaths(e) : f[p] = Unreadable }

\* An environment with a readable credentials file and nothing else.
CredsEnv(v) ==
    EnvOf(v, Undefined, Undefined, "user.jwt", Undefined, Undefined, Undefined,
          <<Undefined, Undefined, Undefined>>)

CredsFiles == [p \in Paths |-> IF p = "user.jwt" THEN "text" ELSE Unreadable]

SettingsNats(v, e, files) == IF v = "jetstream" THEN JetStreamNats(e, files) ELSE CoreNats(e)

\* The stream lists of a deployment on the two streams of StreamNames: the
\* defaults of the JetStream variant, two names and subjects for the core one.
TwoStreamsEnv(v) ==
    IF v = "jetstream"
    THEN [STREAM_NAMES |-> Unset, STREAM_SUBJECTS |-> Unset, JETSTREAM_NAMES |-> Unset]
    ELSE [ STREAM_NAMES    |-> SetTo(<<"pumpfun", ",", "pumpswap">>),
           STREAM_SUBJECTS |-> SetTo(<<"basic.pumpfun", ",", "basic.pumpswap">>),
           JETSTREAM_NAMES |-> Unset ]

\* config.ts was evaluated on import with the lists of TwoStreamsEnv.
TwoStreams ==
    /\ streamEnv = TwoStreamsEnv(variant)
    /\ streams = parseStreamConfig(variant, streamEnv)

\* The texts a stream-list variable is set to: commas, blanks and runs.
EnvTexts ==
    { str \in UNION {[1..n -> {"a", ",", " "}] : n \in 0..MaxEnvLen} :
        \A i \in 1..(Len(str) - 1) : ~(str[i] = "a" /\ str[i + 1] = "a") }

EnvValues == {Unset} \cup {SetTo(str) : str \in EnvTexts}

\* The stream-list variables variant v reads.
StreamEnvs(v) ==
    { [STREAM_NAMES |-> n, STREAM_SUBJECTS |-> s, JETSTREAM_NAMES |-> j] :
        n \in EnvValues, s \in EnvValues,
        j \in IF v = "jetstream" THEN EnvValues ELSE {Unset} }

\* A fresh NATSConsumer (and its Parser) in a process that has not started it.
Fresh ==
    /\ decoding = [data \in Payloads |-> DecodePayload(data)]
    /\ startPc = "init"
    /\ subIdx = 1
    /\ authChosen = "none"
    /\ connectAttempts = 0
    /\ nc = "undefined"
    /\ running = FALSE
    /\ statsInterval = "undefined"
    /\ messageCount = 0
    /\ parserCount = 0
    /\ sub = [s \in Streams |-> "none"]
    /\ queue = [s \in Streams |-> <<>>]
    /\ delivered = [s \in Streams |-> <<>>]
    /\ handled = [s \in Streams |-> <<>>]
    /\ acked = [s \in Streams |-> <<>>]
    /\ sinkOut = <<>>
    /\ parseErrors = 0
    /\ sinkErrors = 0
    /\ snapshot = <<>>
    /\ stops = <<>>
    /\ triggers = 0
    /\ exitCode = -1

\* index.ts with working credentials.
Init ==
    /\ harness = "main"
    /\ variant \in Variants
    /\ settings = SettingsNats(variant, CredsEnv(variant), CredsFiles)
    /\ fs = CredsFiles
    /\ TwoStreams
    /\ sink = "ok"
    /\ Fresh

\* index.ts under every environment.
InitAuth ==
    /\ harness = "main"
    /\ variant \in Variants
    /\ \E e \in Envs(variant) : \E f \in FileSystems(e) :
          /\ settings = SettingsNats(variant, e, f)
          /\ fs = f
    /\ TwoStreams
    /\ sink = "ok"
    /\ Fresh

\* index.ts with working credentials and a console whose console.log may throw.
InitSink ==
    /\ harness = "main"
    /\ variant \in Variants
    /\ settings = SettingsNats(variant, CredsEnv(variant), CredsFiles)
    /\ fs = CredsFiles
    /\ TwoStreams
    /\ sink = "faulty"
    /\ Fresh

\* config.ts is imported under any setting of the stream-list variables.
InitConfig ==
    /\ harness = "import"
    /\ variant \in Variants
    /\ settings = SettingsNats(variant, CredsEnv(variant), CredsFiles)
    /\ fs = CredsFiles
    /\ streamEnv \in StreamEnvs(variant)
    /\ streams = [state |-> "unloaded", targets |-> <<>>]
    /\ sink = "ok"
    /\ Fresh

\* A caller that drives a NATSConsumer itself, with working credentials.
InitApi ==
    /\ harness = "api"
    /\ variant \in Variants
    /\ settings = SettingsNats(variant, CredsEnv(variant), CredsFiles)
    /\ fs = CredsFiles
    /\ TwoStreams
    /\ sink = "ok"
    /\ Fresh


(***************************************************************************)
(* Scheduling.                                                             *)
(***************************************************************************)
Alive == exitCode = -1

\* Work the microtask queue still holds: a receive loop inside an iteration
\* or with a message ready, and the subscribe loop of the core variant,
\* whose subscribe() awaits nothing.
MicrotasksPending ==
    \/ \E s \in Streams : sub[s] = "inHandler"
    \/ \E s \in Streams : sub[s] = "waiting" /\ queue[s] # <<>>
    \/ variant = "core" /\ startPc = "subscribing"

\* The event loop may take the next macrotask.
Quiet == Alive /\ ~MicrotasksPending

Total(f) == LET RECURSIVE Sum(_)
                Sum(k) == IF k = 0 THEN 0 ELSE Len(f[k]) + Sum(k - 1)
            IN  Sum(Len(StreamNames))

(***************************************************************************)
(* start(): connect, subscribe to every stream, reportStats.               *)
(***************************************************************************)
\* start() rejects.  main() catches it and calls process.exit(1).
StartRejected ==
    /\ startPc' = "failed"
    /\ exitCode' = IF harness = "main" THEN 1 ELSE exitCode

\* ConnectCatch that tries the connection once more before giving up.
ConnectCatchRetry(attempts) ==
    IF attempts < 2 THEN [pc |-> "connecting", attempts |-> attempts + 1]
    ELSE [pc |-> "failed", attempts |-> attempts]

\* catch of connect(): log and rethrow, no second attempt.
ConnectCatch(attempts) == [pc |-> "failed", attempts |-> attempts]

\* AfterSubscribe with the rejection swallowed (subscribe() not rethrowing).
AfterSubscribeSwallow(outcome, idx) ==
    IF idx = Len(StreamNames) THEN "started" ELSE "subscribing"

\* What start() does after subscribe(stream idx) settled: a rejection
\* leaves start(), the last stream is followed by reportStats().
AfterSubscribe(outcome, idx) ==
    IF outcome = "fail" THEN "failed"
    ELSE IF idx = Len(StreamNames) THEN "started"
    ELSE "subscribing"

\* Outcomes of opening a subscription on a connection in state c.
SubscribeOutcomes(c) == IF c = "closed" THEN {"fail"} ELSE {"ok", "fail"}

\* start() up to the await of the transport connect: the options are built
\* and the authentication branch is taken.
StartConnect ==
    /\ Alive
    /\ startPc = "init"
    /\ authChosen' = SelectAuth(variant, settings)
    /\ IF OptionsThrow(variant, settings, fs)
       THEN /\ StartRejected
            /\ UNCHANGED connectAttempts
       ELSE /\ startPc' = "connecting"
            /\ connectAttempts' = connectAttempts + 1
            /\ UNCHANGED exitCode
    /\ UNCHANGED <<configVars, subIdx, nc, running, statsInterval, msgVars, sub,
                   snapshot, stops, triggers>>

\* The transport connect settles.
ConnectResolve ==
    /\ Quiet
    /\ startPc = "connecting"
    /\ \E outcome \in {"ok", "fail"} :
         IF outcome = "ok"
         THEN /\ nc' = "open"
              /\ running' = TRUE
              /\ startPc' = "subscribing"
              /\ UNCHANGED <<connectAttempts, exitCode>>
         ELSE /\ connectAttempts' = ConnectCatch(connectAttempts).attempts
              /\ IF ConnectCatch(connectAttempts).pc = "failed"
                 THEN StartRejected
                 ELSE /\ startPc' = ConnectCatch(connectAttempts).pc
                      /\ UNCHANGED exitCode
              /\ UNCHANGED <<nc, running>>
    /\ UNCHANGED <<configVars, subIdx, authChosen, statsInterval, msgVars, sub,
                   snapshot, stops, triggers>>

\* subscribe(settings.streams[subIdx]) settles: js.subscribe of the JetStream
\* variant is awaited, nc.subscribe of the core variant is synchronous.  On
\* success the receive loop of the stream starts.
Subscribe ==
    /\ Alive
    /\ startPc = "subscribing"
    /\ variant = "jetstream" => Quiet
    /\ \E outcome \in SubscribeOutcomes(nc) :
         LET pc == AfterSubscribe(outcome, subIdx)
         IN  /\ sub' = IF outcome = "ok" THEN [sub EXCEPT ![subIdx] = "waiting"] ELSE sub
             /\ IF pc = "failed"
                THEN /\ StartRejected
                     /\ UNCHANGED <<subIdx, statsInterval>>
                ELSE /\ UNCHANGED exitCode
                     /\ IF subIdx < Len(StreamNames)
                        THEN /\ subIdx' = subIdx + 1
                             /\ startPc' = "subscribing"
                             /\ UNCHANGED statsInterval
                        ELSE /\ startPc' = pc
                             /\ statsInterval' = IF pc = "started" THEN "active" ELSE statsInterval
                             /\ UNCHANGED subIdx
    /\ UNCHANGED <<configVars, authChosen, connectAttempts, nc, running, msgVars,
                   snapshot, stops, triggers>>


(***************************************************************************)
(* Message handling: the receive loop, handleMessage, the Parser.          *)
(***************************************************************************)
\* What console.log does in one call of processTransaction: neither call
\* throws, the one of the header line does, or the one of the body does.
SinkFaults(k) == IF k = "faulty" THEN {"none", "header", "body"} ELSE {"none"}

\* What processTransaction printed for message number seq under a fault: the
\* header and the value, nothing, or the header alone (an empty body).
Printed(out, streamName, seq, data, fault) ==
    CASE fault = "none"   -> Append(out, [stream |-> streamName, seq |-> seq, value |-> data])
      [] fault = "header" -> out
      [] fault = "body"   -> Append(out, [stream |-> streamName, seq |-> seq, value |-> <<>>])

\* processTransaction printing the count it read before counting.
processTransactionStale(streamName, data, count, out, fault) ==
    [ parserCount |-> count + 1,
      sinkOut     |-> Printed(out, streamName, count, data, fault),
      logged      |-> fault # "none",
      threw       |-> FALSE ]

\* processTransaction without its try/catch: the error of console.log
\* leaves the function.
processTransactionNoCatch(streamName, data, count, out, fault) ==
    [ parserCount |-> count + 1,
      sinkOut     |-> Printed(out, streamName, count + 1, data, fault),
      logged      |-> FALSE,
      threw       |-> fault # "none" ]

\* processTransaction counting once for each of the two lines it prints.
processTransactionPerLine(streamName, data, count, out, fault) ==
    [ parserCount |-> count + 2,
      sinkOut     |-> Printed(out, streamName, count + 1, data, fault),
      logged      |-> fault # "none",
      threw       |-> FALSE ]

\* Parser.processTransaction(streamName, data): count, then print the
\* stream name, the count and the value; an error of the printing is caught
\* and logged, and never leaves the function.
processTransaction(streamName, data, count, out, fault) ==
    [ parserCount |-> count + 1,
      sinkOut     |-> Printed(out, streamName, count + 1, data, fault),
      logged      |-> fault # "none",
      threw       |-> FALSE ]

\* handleMessage handing every payload to the parser, decoded or not.
handleMessageNoCatch(streamName, data, c, fault) ==
    LET json == decoding[data]
        p == processTransaction(streamName, json.val, c.parserCount, c.sinkOut, fault)
    IN  [ messageCount |-> c.messageCount + 1,
          parserCount  |-> p.parserCount,
          sinkOut      |-> p.sinkOut,
          parseErrors  |-> c.parseErrors,
          sinkErrors   |-> c.sinkErrors + (IF p.logged THEN 1 ELSE 0) ]

\* NATSConsumer.handleMessage(streamName, data) on the counters c: count the
\* message, decode it, hand the value to the parser; an error of JSON.parse
\* or one leaving processTransaction is caught and logged as a parse
\* failure, with what the parser did before it standing.
handleMessage(streamName, data, c, fault) ==
    LET json == decoding[data]
        p == processTransaction(streamName, json.val, c.parserCount, c.sinkOut, fault)
    IN  IF json.ok
        THEN [ messageCount |-> c.messageCount + 1,
               parserCount  |-> p.parserCount,
               sinkOut      |-> p.sinkOut,
               parseErrors  |-> c.parseErrors + (IF p.threw THEN 1 ELSE 0),
               sinkErrors   |-> c.sinkErrors + (IF p.logged THEN 1 ELSE 0) ]
        ELSE [ messageCount |-> c.messageCount + 1,
               parserCount  |-> c.parserCount,
               sinkOut      |-> c.sinkOut,
               parseErrors  |-> c.parseErrors + 1,
               sinkErrors   |-> c.sinkErrors ]

\* AckAfterHandler without the msg.ack() of the error path.
AckAfterHandlerOnSuccess(v, decoded) == v = "jetstream" /\ decoded

\* Whether the loop acknowledges the message once handleMessage returned:
\* msg.ack() follows the await and is repeated in the catch (JetStream
\* variant); the core variant has no acknowledgments.
AckAfterHandler(v, decoded) == v = "jetstream"

\* LoopAfterMessage with a decode error leaving the loop.
LoopAfterMessageThrow(decoded) == IF decoded THEN "waiting" ELSE "exited"

\* Where the loop stands after an iteration: it takes the next message,
\* whatever handleMessage met.
LoopAfterMessage(decoded) == "waiting"

Counters ==
    [ messageCount |-> messageCount, parserCount |-> parserCount,
      sinkOut |-> sinkOut, parseErrors |-> parseErrors, sinkErrors |-> sinkErrors ]

\* The broker delivers a message to the subscription of stream s.  The
\* frames of one socket read are queued before any loop runs.
Deliver(s, m) ==
    /\ Alive
    /\ nc \in {"open", "draining"}
    /\ sub[s] = "waiting"
    /\ \A t \in Streams : sub[t] # "inHandler"
    /\ ~(variant = "core" /\ startPc = "subscribing")
    /\ Total(delivered) < MaxMsgs
    /\ queue' = [queue EXCEPT ![s] = Append(@, m)]
    /\ delivered' = [delivered EXCEPT ![s] = Append(@, m)]
    /\ UNCHANGED <<configVars, startVars, nc, running, statsInterval, messageCount,
                   parserCount, sub, handled, acked, sinkOut, parseErrors, sinkErrors,
                   snapshot, stops, triggers, exitCode>>

\* LoopBreaks of a loop that never looks at the flag.
LoopBreaksNever(run) == FALSE

\* "if (!this.running) { break; }" at the head of the loop body.
LoopBreaks(run) == ~run

\* The iterator of stream s has a message for the "for await" that waits.
LoopTurnPending(s) ==
    /\ Alive
    /\ sub[s] = "waiting"
    /\ queue[s] # <<>>

\* Fetch of an iterator that yields the newest message it holds.
FetchNewest(q) == [msg |-> q[Len(q)], rest |-> SubSeq(q, 1, Len(q) - 1)]

\* What the iterator of a subscription yields from the messages q it
\* holds: the oldest one.
Fetch(q) == [msg |-> Head(q), rest |-> Tail(q)]

\* One turn of "for await (const msg of sub)": leave when this.running is
\* false, else run handleMessage up to its await.
ReceiveLoop(s) ==
    /\ LoopTurnPending(s)
    /\ queue' = [queue EXCEPT ![s] = Fetch(queue[s]).rest]
    /\ IF LoopBreaks(running)
       THEN /\ sub' = [sub EXCEPT ![s] = "exited"]
            /\ UNCHANGED <<messageCount, parserCount, sinkOut, parseErrors, sinkErrors,
                           handled>>
       ELSE \E fault \in SinkFaults(sink) :
            LET r == handleMessage(StreamNames[s], Fetch(queue[s]).msg, Counters, fault)
            IN  /\ sub' = [sub EXCEPT ![s] = "inHandler"]
                /\ handled' = [handled EXCEPT ![s] = Append(@, Fetch(queue[s]).msg)]
                /\ messageCount' = r.messageCount
                /\ parserCount' = r.parserCount
                /\ sinkOut' = r.sinkOut
                /\ parseErrors' = r.parseErrors
                /\ sinkErrors' = r.sinkErrors
    /\ UNCHANGED <<configVars, startVars, nc, running, statsInterval, delivered, acked,
                   snapshot, stops, triggers, exitCode>>

\* The awaited handleMessage returned: acknowledge, take the next message.
ReceiveLoopResume(s) ==
    /\ Alive
    /\ sub[s] = "inHandler"
    /\ LET m == handled[s][Len(handled[s])]
           decoded == decoding[m].ok
       IN  /\ acked' = IF AckAfterHandler(variant, decoded)
                       THEN [acked EXCEPT ![s] = Append(@, m)]
                       ELSE acked
           /\ sub' = [sub EXCEPT ![s] = LoopAfterMessage(decoded)]
    /\ UNCHANGED <<configVars, startVars, nc, running, statsInterval, messageCount,
                   parserCount, queue, delivered, handled, sinkOut, parseErrors, sinkErrors,
                   snapshot, stops, triggers, exitCode>>

\* "elapsed > 0 ? (this.messageCount / elapsed).toFixed(2) : '0'" after ms
\* milliseconds: the text, as its value in hundredths and its number of
\* decimals ("0.67" is <<67, 2>>, '0' is <<0, 0>>).
Rate(mc, ms) ==
    IF ms > 0 THEN <<(2 * 100000 * mc + ms) \div (2 * ms), 2>> ELSE <<0, 0>>

\* The "Consumer Stats" line logged ms milliseconds after startTime; ms is a
\* whole number of seconds.
StatsLine(mc, pc, ms) ==
    [messages |-> mc, rate |-> Rate(mc, ms), parsed |-> pc, uptime |-> ms \div 1000]

\* reportStatsCallback starting the count anew after each line.
reportStatsCallbackReset(mc, pc, run, ms) ==
    [line |-> StatsLine(mc, pc, ms), messageCount |-> 0, running |-> run]

\* reportStatsCallback stopping a consumer that received nothing.
reportStatsCallbackIdleStop(mc, pc, run, ms) ==
    [line |-> StatsLine(mc, pc, ms), messageCount |-> mc, running |-> run /\ mc > 0]

\* The setInterval callback of reportStats: it logs the line and writes
\* neither this.messageCount nor this.running.
reportStatsCallback(mc, pc, run, ms) ==
    [line |-> StatsLine(mc, pc, ms), messageCount |-> mc, running |-> run]

\* A tick of the timer of reportStats, Date.now() - this.startTime being 0
\* or 3000 ms.
StatsTick ==
    /\ Quiet
    /\ statsInterval = "active"
    /\ \E ms \in {0, 3000} :
         LET r == reportStatsCallback(messageCount, parserCount, running, ms)
         IN  /\ snapshot' = <<r.line>>
             /\ messageCount' = r.messageCount
             /\ running' = r.running
    /\ UNCHANGED <<configVars, startVars, nc, statsInterval, parserCount, queue, delivered,
                   handled, acked, sinkOut, parseErrors, sinkErrors, sub, stops, triggers,
                   exitCode>>

(***************************************************************************)
(* stop() and the shutdown handler of index.ts.                            *)
(***************************************************************************)
\* "if (this.nc) await this.nc.drain()" on a connection in state c: skipped
\* without a connection, pending on an open one; a connection that is
\* already draining or closed rejects the call.
DrainCall(c) ==
    CASE c = "undefined" -> "skipped"
      [] c = "open"      -> "pending"
      [] OTHER           -> "rejected"

\* How a stop() call ended, from what its drain did.
StopResult(call) ==
    CASE call.drain \in {"skipped", "resolved"} -> "ok"
      [] call.drain = "pending" -> "pending"
      [] OTHER -> "err"

\* shutdown(): process.exit(0) after stop(), process.exit(1) in the catch.
ShutdownExit(result) == IF result = "ok" THEN 0 ELSE 1

\* consumer.stop() up to the await of the drain.
StopCall(by) ==
    LET call == [by |-> by, drain |-> DrainCall(nc), during |-> startPc]
    IN  /\ running' = FALSE
        /\ statsInterval' = IF statsInterval = "active" THEN "cleared" ELSE statsInterval
        /\ nc' = IF nc = "open" THEN "draining" ELSE nc
        /\ stops' = Append(stops, call)
        /\ exitCode' = IF by # "api" /\ StopResult(call) # "pending"
                       THEN ShutdownExit(StopResult(call))
                       ELSE exitCode

\* A shutdown trigger: the handler calls shutdown(signal).
Shutdown(signal) ==
    /\ harness = "main"
    /\ Quiet
    /\ startPc # "init"
    /\ Len(stops) < MaxStops
    /\ triggers' = triggers + 1
    /\ StopCall("shutdown")
    /\ UNCHANGED <<configVars, startVars, msgVars, sub, snapshot>>

\* A caller of the class calls stop().
ApiStop ==
    /\ harness = "api"
    /\ Quiet
    /\ Len(stops) < MaxStops
    /\ StopCall("api")
    /\ UNCHANGED <<configVars, startVars, msgVars, sub, snapshot, triggers>>

\* DrainClosesSubs of a drain that leaves the iterators open.
DrainLeavesSubs(subs) == subs

\* What the end of the drain does to the receive loops: the subscriptions
\* are closed, so every "for await" that waits for a message ends.
DrainClosesSubs(subs) ==
    [s \in Streams |-> IF subs[s] = "waiting" THEN "exited" ELSE subs[s]]

\* The drain of the connection ends: the subscriptions are closed, their
\* iterators end, the stop() that awaited the drain goes on.
DrainComplete ==
    /\ Quiet
    /\ nc = "draining"
    /\ \E outcome \in {"resolved", "rejected"} :
         LET i == CHOOSE k \in 1..Len(stops) : stops[k].drain = "pending"
             call == [stops[i] EXCEPT !.drain = outcome]
         IN  /\ stops' = [stops EXCEPT ![i] = call]
             /\ exitCode' = IF call.by # "api" THEN ShutdownExit(StopResult(call)) ELSE exitCode
    /\ nc' = "closed"
    /\ sub' = DrainClosesSubs(sub)
    /\ UNCHANGED <<configVars, startVars, running, statsInterval, msgVars, snapshot, triggers>>

\* The import of config.ts evaluates "streams: parseStreamConfig()".
LoadSettings ==
    /\ harness = "import"
    /\ streams.state = "unloaded"
    /\ streams' = parseStreamConfig(variant, streamEnv)
    /\ UNCHANGED <<harness, variant, settings, fs, streamEnv, sink, decoding, startVars, nc, running,
                   statsInterval, msgVars, sub, snapshot, stops, triggers, exitCode>>

(***************************************************************************)
(* Specifications.                                                         *)
(***************************************************************************)
Next ==
    \/ StartConnect
    \/ ConnectResolve
    \/ Subscribe
    \/ \E s \in Streams, m \in Payloads : Deliver(s, m)
    \/ \E s \in Streams : ReceiveLoop(s)
    \/ \E s \in Streams : ReceiveLoopResume(s)
    \/ StatsTick
    \/ \E signal \in Triggers : Shutdown(signal)
    \/ DrainComplete

\* index.ts with working credentials.
Spec == Init /\ [][Next]_vars

NextAuth ==
    \/ StartConnect
    \/ ConnectResolve
    \/ Subscribe
    \/ \E signal \in Triggers : Shutdown(signal)
    \/ DrainComplete

\* The start sequence of index.ts under every environment.
SpecAuth == InitAuth /\ [][NextAuth]_vars

\* Next of a caller of the class, the broker delivering {"a":1} and not-json.
NextApi ==
    \/ StartConnect
    \/ ConnectResolve
    \/ Subscribe
    \/ \E s \in Streams :
          \E m \in {<<123, 34, 97, 34, 58, 49, 125>>, <<110, 111, 116, 45, 106, 115, 111, 110>>} :
             Deliver(s, m)
    \/ \E s \in Streams : ReceiveLoop(s)
    \/ \E s \in Streams : ReceiveLoopResume(s)
    \/ StatsTick
    \/ ApiStop
    \/ DrainComplete

\* A caller that starts and stops a NATSConsumer itself.
SpecApi == InitApi /\ [][NextApi]_vars

\* index.ts on an event loop that runs every pending microtask and a broker
\* that ends a drain it was asked for.  The weak fairness of ReceiveLoop is
\* written out, LoopTurnPending being what enables it.
SpecLive ==
    /\ Init /\ [][Next]_vars
    /\ \A s \in Streams :
          /\ []<>(~LoopTurnPending(s)) \/ []<><<ReceiveLoop(s)>>_vars
          /\ WF_vars(ReceiveLoopResume(s))
    /\ WF_vars(DrainComplete)

\* Next with the broker delivering {"a":1} and not-json only.
NextSink ==
    \/ StartConnect
    \/ ConnectResolve
    \/ Subscribe
    \/ \E s \in Streams :
          \E m \in {<<123, 34, 97, 34, 58, 49, 125>>, <<110, 111, 116, 45, 106, 115, 111, 110>>} :
             Deliver(s, m)
    \/ \E s \in Streams : ReceiveLoop(s)
    \/ \E s \in Streams : ReceiveLoopResume(s)
    \/ StatsTick
    \/ \E signal \in Triggers : Shutdown(signal)
    \/ DrainComplete

\* index.ts printing to a console whose console.log may throw.
SpecSink == InitSink /\ [][NextSink]_vars

\* The import of config.ts alone.
SpecConfig == InitConfig /\ [][LoadSettings]_vars


(***************************************************************************)
(* Properties.                                                             *)
(***************************************************************************)
\* Messages of the history h (per stream) that decode.
Decoded(h) == {<<s, i>> \in Streams \X (1..MaxMsgs + 1) : i <= Len(h[s]) /\ DecodePayload(h[s][i]).ok}
Undecoded(h) == {<<s, i>> \in Streams \X (1..MaxMsgs + 1) : i <= Len(h[s]) /\ ~DecodePayload(h[s][i]).ok}

\* A stop() call awaits the drain.
ShutdownInProgress == \E k \in 1..Len(stops) : StopResult(stops[k]) = "pending"

\* Calls of nc.drain() so far.
DrainCalls == Cardinality({k \in 1..Len(stops) : stops[k].drain # "skipped"})

\* C1: a shutdown trigger that arrives while a shutdown is in progress does
\* not enter the sequence again: stop() and the drain are not invoked again,
\* no error is raised and the process does not exit on account of it.
C1_ShutdownNotReentered ==
    [][(triggers' = triggers + 1 /\ ShutdownInProgress)
         => /\ Len(stops') = Len(stops)
            /\ DrainCalls' = DrainCalls
            /\ exitCode' = exitCode]_vars

\* The consumer as a stop() that returned leaves it.
Stopped ==
    /\ ~running
    /\ statsInterval # "active"
    /\ nc \in {"undefined", "closed"}

\* C2: a second stop() made right after a first one returned, on the
\* consumer as that one left it, returns without error and leaves the same
\* final state (not running, timer cancelled, connection closed).
C2_StopTwiceAsOnce ==
    [][(Len(stops) = 1 /\ StopResult(stops[1]) = "ok" /\ Stopped /\ Len(stops') = 2)
         => /\ StopResult(stops'[2]) = "ok"
            /\ Stopped'
            /\ running' = running
            /\ statsInterval' = statsInterval
            /\ nc' = nc]_vars

\* C3: a message that fails to decode never ends a subscription: while
\* running is true no receive loop has ended, every failure is logged, the
\* messages are handled in delivery order, and a loop that is idle with an
\* empty queue has handled every message delivered to it, those after a
\* malformed one included.
C3_MalformedNeverTerminates ==
    /\ parseErrors = Cardinality(Undecoded(handled))
    /\ \A s \in Streams :
         /\ Len(handled[s]) <= Len(delivered[s])
         /\ handled[s] = SubSeq(delivered[s], 1, Len(handled[s]))
         /\ running => sub[s] # "exited"
         /\ (running /\ sub[s] = "waiting" /\ queue[s] = <<>>) => handled[s] = delivered[s]

\* A stream handled a malformed message and then a later message, and its
\* loop waits for the next one.
C3_Witness ==
    \E s \in Streams :
        /\ running
        /\ sub[s] = "waiting"
        /\ Len(handled[s]) >= 2
        /\ ~DecodePayload(handled[s][1]).ok
        /\ DecodePayload(handled[s][2]).ok

\* C4: in the JetStream variant every message passed to handleMessage is
\* acknowledged once the handler returned, decoded or not: outside of an
\* iteration (and so whenever the process exits) the acknowledged messages
\* are the handled ones, inside one only the message in hand is missing.
C4_HandledIsAcked ==
    variant = "jetstream" =>
        \A s \in Streams :
            IF sub[s] = "inHandler"
            THEN acked[s] = SubSeq(handled[s], 1, Len(handled[s]) - 1)
            ELSE acked[s] = handled[s]

\* A JetStream message that failed to decode has been acknowledged.
C4_Witness ==
    /\ variant = "jetstream"
    /\ \E s \in Streams : Len(acked[s]) >= 1 /\ ~DecodePayload(acked[s][1]).ok

\* The message handleMessage was called with in this step, if any.
HandledNow(s) == handled'[s][Len(handled'[s])]

\* C5 as stated: a message that is valid UTF-8 and JSON raises
\* messagesProcessed by one and reaches the sink once with its value; any
\* other message changes neither.
C5_ValidUtf8JsonCounted ==
    [][\A s \in Streams : handled'[s] # handled[s] =>
          IF ValidUTF8(HandledNow(s)) /\ DecodePayload(HandledNow(s)).ok
          THEN /\ parserCount' = parserCount + 1
               /\ sinkOut' = Append(sinkOut, [stream |-> StreamNames[s], seq |-> parserCount',
                                              value |-> DecodePayload(HandledNow(s)).val])
          ELSE /\ parserCount' = parserCount
               /\ sinkOut' = sinkOut]_vars

\* C5 amended: a message whose text (malformed UTF-8 sequences replaced by
\* U+FFFD) parses as JSON raises messagesProcessed by one and reaches the
\* sink once with the parsed value; any other message changes neither.
C5_ParsedJsonCounted ==
    [][\A s \in Streams : handled'[s] # handled[s] =>
          IF JSONParse(StringCodecDecode(HandledNow(s))).ok
          THEN /\ parserCount' = parserCount + 1
               /\ Len(sinkOut') = Len(sinkOut) + 1
               /\ SubSeq(sinkOut', 1, Len(sinkOut)) = sinkOut
               /\ sinkOut'[Len(sinkOut')].value = JSONParse(StringCodecDecode(HandledNow(s))).val
               /\ sinkOut'[Len(sinkOut')].stream = StreamNames[s]
          ELSE /\ parserCount' = parserCount
               /\ sinkOut' = sinkOut]_vars

\* A payload that is not UTF-8 was counted and printed, and another payload
\* was rejected.
C5_Witness ==
    /\ parseErrors >= 1
    /\ \E s \in Streams : \E i \in 1..Len(handled[s]) :
          /\ ~ValidUTF8(handled[s][i])
          /\ \E k \in 1..Len(sinkOut) : sinkOut[k].value = <<34, 65533, 34>>

\* C6: messagesReceived counts every message handed to the handler, decoded
\* or not, messagesProcessed the decoded ones, and the sink numbers its
\* output 1..k in order; while running is true and nothing is queued or in
\* hand, every delivered message has been counted.
C6_CountersAndSequence ==
    /\ messageCount = Total(handled)
    /\ parserCount = Cardinality(Decoded(handled))
    /\ Len(sinkOut) = parserCount
    /\ \A k \in 1..Len(sinkOut) : sinkOut[k].seq = k
    /\ (running /\ \A s \in Streams : queue[s] = <<>>) => messageCount = Total(delivered)

\* Three messages over both streams, {"a":1} and {"a":2} decoded and printed
\* as numbers 1 and 2, one message rejected.
C6_Witness ==
    /\ messageCount = 3
    /\ parserCount = 2
    /\ Len(handled[1]) >= 1 /\ Len(handled[2]) >= 1
    /\ parseErrors = 1
    /\ Len(sinkOut) = 2 /\ sinkOut[1].seq = 1 /\ sinkOut[2].seq = 2
    /\ sinkOut[1].value = <<123, 34, 97, 34, 58, 49, 125>>
    /\ sinkOut[2].value = <<123, 34, 97, 34, 58, 50, 125>>
    /\ sinkOut[1].stream # sinkOut[2].stream


\* start() was rejected by connect(): no connection was made.
ConnectFailed == startPc = "failed" /\ nc = "undefined"

\* start() was rejected by a subscribe(): the connection was there.
SubscribeFailed == startPc = "failed" /\ nc # "undefined"

\* C7: start() connects, then subscribes to the streams in list order, then
\* starts the stats timer; a failed connect leaves no subscription and no
\* timer, a failed subscribe leaves no timer, and either failure leaves
\* start() and ends the process with code 1.
C7_StartOrderAndAbort ==
    /\ \A s \in Streams : sub[s] # "none" =>
          /\ connectAttempts = 1 /\ nc # "undefined"
          /\ \A r \in Streams : r < s => sub[r] # "none"
    /\ statsInterval # "undefined" =>
          /\ startPc = "started"
          /\ \A s \in Streams : sub[s] # "none"
    /\ ConnectFailed => \A s \in Streams : sub[s] = "none"
    /\ startPc = "failed" => statsInterval = "undefined" /\ exitCode = 1

\* The subscribe of the second stream failed after the first succeeded: the
\* timer was not started and the process ended with code 1.
C7_Witness ==
    /\ SubscribeFailed
    /\ sub[1] # "none" /\ sub[2] = "none"
    /\ statsInterval = "undefined"
    /\ exitCode = 1

C9_StrictAuthNotConfigured ==
    (/\ variant = "core"
     /\ startPc # "init"
     /\ ~Truthy(settings.credsFile)
     /\ ~(Truthy(settings.userJwt) /\ Truthy(settings.userSeed)))
    => /\ authChosen = "notConfigured"
       /\ startPc = "failed"
       /\ connectAttempts = 0
       /\ nc = "undefined"
       /\ \A s \in Streams : sub[s] = "none"
       /\ ~running

\* The core variant was started with a JWT and no seed.
C9_Witness ==
    /\ variant = "core"
    /\ settings.userJwt = "J" /\ settings.userSeed = Undefined
    /\ authChosen = "notConfigured"
    /\ exitCode = 1

\* C10: in the JetStream variant connect() takes exactly one authentication
\* branch, the first that matches in the order credentials file, JWT + NKey,
\* JWT, NKey, anonymous, whatever lower-priority material is also set.
C10_AuthPriority ==
    (variant = "jetstream" /\ startPc # "init") =>
        LET f == Truthy(settings.jwtFile)
            j == Truthy(settings.jwt)
            k == Truthy(settings.nkey)
        IN  /\ authChosen \in {"credsFile", "jwt+nkey", "jwt", "nkey", "anonymous"}
            /\ authChosen = "credsFile" <=> f
            /\ authChosen = "jwt+nkey" <=> (~f /\ j /\ k)
            /\ authChosen = "jwt" <=> (~f /\ j /\ ~k)
            /\ authChosen = "nkey" <=> (~f /\ ~j /\ k)
            /\ authChosen = "anonymous" <=> (~f /\ ~j /\ ~k)

\* A credentials file won over an inline JWT and NKey that were also set.
C10_Witness ==
    /\ variant = "jetstream"
    /\ authChosen = "credsFile"
    /\ settings.jwt = "J" /\ settings.nkey = "K"

\* subscribe(settings.streams[s]) has been called: the for loop of start()
\* passed the index, or stands at it with start() settled.
Attempted(s) ==
    /\ nc # "undefined"
    /\ \/ s < subIdx
       \/ s = subIdx /\ startPc \in {"started", "failed"}

\* C11: the subscriptions are opened best-effort: when start() failed on a
\* subscribe, every stream of the list has been attempted, those after the
\* failing one included.
C11_SubscribeAllBestEffort ==
    SubscribeFailed => \A s \in Streams : Attempted(s)

\* C12: once running is false no receive loop processes another message: a
\* step taken with the flag down calls no handler, raises no counter and
\* acknowledges nothing, and a loop that takes a message off its
\* subscription in such a step ends.
C12_NoProcessingAfterStop ==
    [][~running =>
         /\ handled' = handled
         /\ messageCount' = messageCount
         /\ parserCount' = parserCount
         /\ acked' = acked
         /\ \A s \in Streams : Len(queue'[s]) < Len(queue[s]) => sub'[s] = "exited"]_vars

\* After the flag went down a message arrived on a stream; its loop took it
\* and ended without handling it, another loop was ended by the drain.
C12_Witness ==
    /\ ~running
    /\ \E s, r \in Streams :
          /\ s # r
          /\ sub[s] = "exited" /\ sub[r] = "exited"
          /\ queue[s] = <<>>
          /\ Len(delivered[s]) = Len(handled[s]) + 1
          /\ delivered[r] = handled[r]

\* C13: the shutdown sequence runs in the order running = false, timer
\* cancelled, sink stopped, connection drained, exit, each step after the
\* one before it completed: the connection is never draining or closed with
\* running still true, and when shutdown() ends the process no drain of the
\* connection is still under way.
C13_ShutdownOrder ==
    /\ [](nc \in {"draining", "closed"} => ~running)
    /\ [][(exitCode' # exitCode /\ stops' # stops)
            => \A k \in 1..Len(stops') : stops'[k].drain # "pending"]_vars

\* C14: the process exits with 0 exactly when the shutdown completed without
\* an error, and with 1 when start() failed or the shutdown met an error; a
\* further trigger during the shutdown turns neither a failed start into a 0
\* nor a clean shutdown into a 1.
C14_ExitCode ==
    /\ exitCode = 0 =>
          /\ startPc # "failed"
          /\ stops # <<>> /\ StopResult(stops[1]) = "ok"
    /\ exitCode = 1 =>
          \/ startPc = "failed"
          \/ stops # <<>> /\ StopResult(stops[1]) = "err"

\* C15: the import throws whenever the lists of stream names, subjects and
\* (JetStream variant) stream ids differ in length, and then no target and
\* no settings exist; when the lengths are equal it yields one target per
\* index, in list order, each built from the entries at that index.
C15_MismatchedListsThrow ==
    streams.state # "unloaded" =>
        LET l == StreamLists(variant, streamEnv)
            n == Len(l.names)
            equal == /\ Len(l.subjects) = n
                     /\ variant = "jetstream" => Len(l.streams) = n
        IN  IF ~equal
            THEN streams.state = "threw" /\ streams.targets = <<>>
            ELSE /\ streams.state = "loaded"
                 /\ Len(streams.targets) = n
                 /\ \A i \in 1..n :
                       /\ streams.targets[i].name = TrimText(l.names[i])
                       /\ streams.targets[i].subject = TrimText(l.subjects[i])
                       /\ variant = "jetstream" =>
                             streams.targets[i].stream = TrimText(l.streams[i])

\* The JetStream import threw on three stream ids against two names and two
\* subjects.
C15_Witness ==
    /\ variant = "jetstream"
    /\ streams.state = "threw"
    /\ Len(StreamLists(variant, streamEnv).names) = 2
    /\ Len(StreamLists(variant, streamEnv).subjects) = 2
    /\ Len(StreamLists(variant, streamEnv).streams) = 3

\* The receive loop of stream s has ended, or was never started.
LoopEnded(s) == sub[s] \in {"none", "exited"}

\* C16: after a shutdown was triggered every receive loop ends: once stop()
\* was called, the loops have ended or the process has exited; when the
\* connection is drained every loop has ended, a message delivered or not;
\* and a loop that ended is not started again.
C16_LoopsTerminate ==
    /\ [](nc = "closed" => \A s \in Streams : LoopEnded(s))
    /\ [][\A s \in Streams : sub[s] = "exited" => sub'[s] = "exited"]_vars
    /\ (stops # <<>>) ~> (~Alive \/ \A s \in Streams : LoopEnded(s))

\* The connection is drained and both loops ended, one of them without ever
\* having been given a message.
C16_Witness ==
    /\ stops # <<>> /\ ~running /\ nc = "closed"
    /\ \A s \in Streams : sub[s] = "exited"
    /\ \E s \in Streams : delivered[s] = <<>>

\* C17: within a subscription the messages are handled in the order the
\* broker delivered them, one at a time: the handler is called with the
\* next delivered message, and only when the loop waits, the handler of the
\* message before having returned and (JetStream variant) its
\* acknowledgment having been sent.
C17_InOrderOneAtATime ==
    [][\A s \in Streams : handled'[s] # handled[s] =>
          /\ sub[s] = "waiting"
          /\ Len(handled[s]) < Len(delivered[s])
          /\ handled'[s] = SubSeq(delivered[s], 1, Len(handled[s]) + 1)
          /\ variant = "jetstream" => acked[s] = handled[s]]_vars

\* A stream handled two different messages in their delivery order, and the
\* message of the other stream was printed between them.
C17_Witness ==
    \E s, r \in Streams :
        /\ s # r
        /\ Len(handled[s]) = 2 /\ handled[s] = delivered[s]
        /\ handled[s][1] # handled[s][2]
        /\ Len(handled[r]) = 1
        /\ Len(sinkOut) = 3
        /\ sinkOut[1].stream = StreamNames[s]
        /\ sinkOut[2].stream = StreamNames[r]
        /\ sinkOut[3].stream = StreamNames[s]

\* C18 as stated: messagesProcessed is raised only when the message decoded
\* and the sink printed it; a failure of the sink is caught and logged by
\* the parser, is not taken for a decode failure, leaves the loop in its
\* iteration (the acknowledgment follows) and leaves messagesProcessed as
\* it was.
C18_CountedAfterSink ==
    [][\A s \in Streams : handled'[s] # handled[s] =>
          /\ parserCount' # parserCount =>
                /\ parserCount' = parserCount + 1
                /\ DecodePayload(HandledNow(s)).ok
                /\ sinkErrors' = sinkErrors
          /\ sinkErrors' # sinkErrors =>
                /\ sinkErrors' = sinkErrors + 1
                /\ parseErrors' = parseErrors
                /\ sub'[s] = "inHandler"
                /\ parserCount' = parserCount]_vars

\* C18 amended: messagesProcessed is raised by one exactly when the message
\* decoded, before the sink prints it, so a message whose printing failed is
\* counted as well; a failure of the sink is caught and logged by the
\* parser, is not taken for a decode failure and leaves the loop in its
\* iteration (the acknowledgment follows).
C18_CountedBeforeSink ==
    [][\A s \in Streams : handled'[s] # handled[s] =>
          /\ parserCount' = parserCount + (IF DecodePayload(HandledNow(s)).ok THEN 1 ELSE 0)
          /\ parseErrors' = parseErrors + (IF DecodePayload(HandledNow(s)).ok THEN 0 ELSE 1)
          /\ sinkErrors' # sinkErrors =>
                /\ sinkErrors' = sinkErrors + 1
                /\ DecodePayload(HandledNow(s)).ok
                /\ parseErrors' = parseErrors
                /\ sub'[s] = "inHandler"
                /\ parserCount' = parserCount + 1]_vars

\* The printing of a decoded JetStream message failed: the failure was
\* logged, the message was counted as processed and acknowledged, and the
\* loop went on to handle the next message.
C18_Witness ==
    /\ variant = "jetstream"
    /\ sinkErrors = 1 /\ parseErrors = 0
    /\ parserCount = 2 /\ Len(sinkOut) = 1
    /\ \E s \in Streams : Len(handled[s]) = 2 /\ acked[s] = handled[s]

\* C19: messagesReceived and messagesProcessed never decrease, whatever the
\* step: start, delivery, handling, stats tick or stop.
C19_CountersMonotonic ==
    [][messageCount' >= messageCount /\ parserCount' >= parserCount]_vars

\* Three messages were counted, two of them processed, a stats line was
\* logged after the first of them, and the consumer was stopped.
C19_Witness ==
    /\ messageCount = 3 /\ parserCount = 2
    /\ snapshot # <<>> /\ snapshot[1].messages >= 1
    /\ stops # <<>> /\ ~running

\* C20: the stats reporter ticks whatever the traffic: while the timer is
\* active a tick is possible at every turn of the event loop, messages or
\* not; a line logged with no message received reports rate 0 and
\* messagesProcessed 0; and a tick changes neither counter nor the running
\* flag.
C20_StatsIndependentOfTraffic ==
    /\ []((statsInterval = "active" /\ Quiet) => ENABLED StatsTick)
    /\ [](\A k \in 1..Len(snapshot) :
             snapshot[k].messages = 0 => snapshot[k].rate[1] = 0 /\ snapshot[k].parsed = 0)
    /\ [][snapshot' # snapshot =>
             /\ messageCount' = messageCount
             /\ parserCount' = parserCount
             /\ running' = running]_vars

\* A line was logged three seconds after the start with no message
\* received, the consumer running.
C20_Witness ==
    /\ running /\ statsInterval = "active"
    /\ messageCount = 0 /\ \A s \in Streams : delivered[s] = <<>>
    /\ snapshot = <<[messages |-> 0, rate |-> <<0, 2>>, parsed |-> 0, uptime |-> 3]>>

\* C21: messagesProcessed never exceeds messagesReceived, whatever the
\* interleaving of deliveries over the subscriptions, stats ticks and
\* shutdown; the numbers a stats line reports obey the same order.
C21_ProcessedAtMostReceived ==
    /\ parserCount <= messageCount
    /\ \A k \in 1..Len(snapshot) : snapshot[k].parsed <= snapshot[k].messages

\* Every message received so far was processed, on both streams, a stats
\* line was logged between two of them, and the shutdown has begun.
C21_Witness ==
    /\ parserCount = messageCount /\ messageCount = 3
    /\ \A s \in Streams : handled[s] # <<>>
    /\ snapshot # <<>> /\ snapshot[1].messages \in {1, 2}
    /\ stops # <<>>

\* stop() was called while start() awaited the connect or a subscribe, and
\* that call has returned.
StoppedDuringStart ==
    \E k \in 1..Len(stops) : stops[k].during \in {"connecting", "subscribing"}

StopDuringStartReturned ==
    \E k \in 1..Len(stops) :
        /\ stops[k].during \in {"connecting", "subscribing"}
        /\ StopResult(stops[k]) # "pending"

\* C22: a stop() called while start() is in progress wins: from then on
\* running is not set to true, no subscription handles a message, and once
\* that stop() has returned the stats timer is not active.
C22_ShutdownWinsOverStart ==
    [][StoppedDuringStart =>
          /\ ~running'
          /\ handled' = handled
          /\ StopDuringStartReturned' => statsInterval' # "active"]_vars

====
